---- MODULE Spec2Model ----
(***************************************************************************)
(* A model of akashi-tide-app: the tide estimator of src/lib/tide-utils.ts *)
(* (parseTideEvents, estimateCurrentFlow, timeToMinutes), the particle     *)
(* flow field of src/components/AkashiStraitMap.tsx and the page of        *)
(* src/app/page.tsx that fetches a day's tide and shows its estimate.      *)
(*                                                                         *)
(* Strings are sequences of one-character strings, so that the code's      *)
(* string comparisons, padStart, split, Number and parseInt are computed   *)
(* character by character.  A JavaScript value that may be null/undefined  *)
(* is a sequence of length 0 (absent) or 1 (present); a JavaScript number  *)
(* that may be NaN is <<>> (NaN) or <<n>>.                                 *)
(*                                                                         *)
(* Labels: "Southward" is the code's "南流（下げ潮）", "Northward" is      *)
(* "北流（上げ潮）", "Transitional" is "転流"; "Strong"/"Medium"/"Weak"    *)
(* are "強"/"中"/"弱"; "no data" is "データなし" and "cannot estimate" is  *)
(* "推定不可"; "High"/"Low" in a description are "満潮"/"干潮".            *)
(***************************************************************************)
EXTENDS Integers, Sequences, FiniteSets, TLC

VARIABLES
  data,          \* parseTideEvents: the response object {high, low}
  events,        \* the TideEvent[] parseTideEvents returned / estimateCurrentFlow reads
  ppc,           \* parseTideEvents: "idle" before the call, "parsed" after
  currentHour,   \* estimateCurrentFlow: the argument currentHour
  prevEvent,     \* estimateCurrentFlow: local prevEvent at return
  nextEvent,     \* estimateCurrentFlow: local nextEvent at return
  progress,      \* estimateCurrentFlow: local progress at return, <<num, den>>
  flow,          \* the CurrentFlow returned (absent before the first call)
  epc,           \* estimateCurrentFlow: "idle" before the first call, "returned" after
  props,         \* AkashiStraitMap: the props direction and strength of the last render
  effect,        \* the effect that is set up: the direction and strength its closures hold
  viewport,      \* the browser: the container's width and window.innerHeight
  sizeRef,       \* sizeRef.current: w and h (h in 1/10 px); scale is w / 800
  particlesRef,  \* particlesRef.current
  lastStep,      \* per particle, what the last animate did to it (not program state)
  animFrameRef,  \* animFrameRef.current
  frames,        \* the browser: the animation-frame callbacks that are pending
  listeners,     \* the browser: the effects whose resize listener is registered
  nextFrameId,   \* the browser: the id the next requestAnimationFrame returns
  effectRuns,    \* how many times the effect was set up
  frameCount,    \* how many animation frames have run
  mounted,       \* the component is mounted
  now,           \* the clock new Date() reads: the day and the hour of the day
  selectedDate,  \* Home: state selectedDate, as a day
  tideEvents,    \* Home: state tideEvents
  currentFlow,   \* Home: state currentFlow (absent when null)
  loading,       \* Home: state loading
  error,         \* Home: state error is not null
  fetches,       \* the fetchTide calls that await their response: id and date
  interval,      \* the setInterval of the effect: absent, or the tideEvents its callback holds
  shown,         \* where tideEvents and currentFlow come from (not program state)
  nextFetchId,   \* numbers the fetchTide calls
  clockSteps,    \* how many hours the clock has advanced
  dateChanges    \* how many times the user has changed the date

tideVars == <<data, events, ppc, currentHour, prevEvent, nextEvent, progress, flow, epc>>

simVars == <<props, effect, viewport, sizeRef, particlesRef, lastStep, animFrameRef,
             frames, listeners, nextFrameId, effectRuns, frameCount, mounted>>

pageVars == <<now, selectedDate, tideEvents, currentFlow, loading, error, fetches,
              interval, shown, nextFetchId, clockSteps, dateChanges>>

vars == <<tideVars, simVars, pageVars>>

\* the page is not rendered
PageIdle ==
  /\ now = [day |-> 2, hour |-> 12]
  /\ selectedDate = 2
  /\ tideEvents = <<>>
  /\ currentFlow = <<>>
  /\ loading = TRUE
  /\ error = FALSE
  /\ fetches = {}
  /\ interval = <<>>
  /\ shown = [date |-> 0, hour |-> 0, by |-> "none"]
  /\ nextFetchId = 1
  /\ clockSteps = 0
  /\ dateChanges = 0

\* the component is not rendered
SimIdle ==
  /\ props = [direction |-> "slack", strength |-> "weak"]
  /\ effect = <<>>
  /\ viewport = [width |-> 800, innerHeight |-> 1000]
  /\ sizeRef = [w |-> 800, h |-> 6000]
  /\ particlesRef = <<>>
  /\ lastStep = <<>>
  /\ animFrameRef = 0
  /\ frames = {}
  /\ listeners = {}
  /\ nextFrameId = 1
  /\ effectRuns = 0
  /\ frameCount = 0
  /\ mounted = FALSE

-----------------------------------------------------------------------------
(* Optional values and strings *)

None == <<>>

Some(x) == <<x>>

IsSome(o) == Len(o) = 1

Digits == <<"0", "1", "2", "3", "4", "5", "6", "7", "8", "9">>

\* UTF-16 code unit of the characters that occur
CodeUnit(c) ==
  CASE c = "0" -> 48 [] c = "1" -> 49 [] c = "2" -> 50 [] c = "3" -> 51 [] c = "4" -> 52
    [] c = "5" -> 53 [] c = "6" -> 54 [] c = "7" -> 55 [] c = "8" -> 56 [] c = "9" -> 57
    [] c = ":" -> 58 [] c = "-" -> 45 [] c = "." -> 46 [] c = " " -> 32

IsDigit(c) == CodeUnit(c) >= 48 /\ CodeUnit(c) <= 57

DigitValue(c) == CodeUnit(c) - 48

\* Collation order of String.prototype.localeCompare (root collation):
\* white space, then punctuation ("-" before ":" before "."), then digits.
CollationKey(c) ==
  IF IsDigit(c) THEN 10 + DigitValue(c)
  ELSE IF c = " " THEN 1
  ELSE IF c = "-" THEN 2
  ELSE IF c = ":" THEN 3
  ELSE 4

RECURSIVE StrCompareBy(_, _, _)
\* -1, 0 or 1: a against b, character by character; a proper prefix is smaller
StrCompareBy(a, b, byCollation) ==
  IF Len(a) = 0 /\ Len(b) = 0 THEN 0
  ELSE IF Len(a) = 0 THEN -1
  ELSE IF Len(b) = 0 THEN 1
  ELSE LET ka == IF byCollation THEN CollationKey(Head(a)) ELSE CodeUnit(Head(a))
           kb == IF byCollation THEN CollationKey(Head(b)) ELSE CodeUnit(Head(b))
       IN IF ka < kb THEN -1
          ELSE IF ka > kb THEN 1
          ELSE StrCompareBy(Tail(a), Tail(b), byCollation)

\* a.localeCompare(b)
localeCompare(a, b) == StrCompareBy(a, b, TRUE)

\* the relational operators on two strings: by code units
StrLe(a, b) == StrCompareBy(a, b, FALSE) <= 0

StrGt(a, b) == StrCompareBy(a, b, FALSE) > 0

\* String(n) for 0 <= n <= 99
String(n) == IF n < 10 THEN <<Digits[n + 1]>> ELSE <<Digits[(n \div 10) + 1], Digits[(n % 10) + 1]>>

\* s.padStart(2, "0")
padStart2(s) == IF Len(s) >= 2 THEN s ELSE IF Len(s) = 1 THEN <<"0">> \o s ELSE <<"0", "0">>

\* the string "HH:MM" of an hour and a minute, both zero-padded
HHMM(h, m) == padStart2(String(h)) \o <<":">> \o padStart2(String(m))

RECURSIVE DigitsValue(_, _)
\* the decimal value of a string of digits, acc being the value read so far
DigitsValue(s, acc) ==
  IF Len(s) = 0 THEN acc ELSE DigitsValue(Tail(s), 10 * acc + DigitValue(Head(s)))

RECURSIVE LeadingDigits(_)
LeadingDigits(s) ==
  IF Len(s) = 0 \/ ~IsDigit(Head(s)) THEN <<>> ELSE <<Head(s)>> \o LeadingDigits(Tail(s))

RECURSIVE TrimStart(_)
TrimStart(s) == IF Len(s) > 0 /\ Head(s) = " " THEN TrimStart(Tail(s)) ELSE s

\* parseInt(s, 10): leading white space, an optional sign, then the longest run
\* of digits; NaN (<<>>) when there is no digit
parseInt(s) ==
  LET t == TrimStart(s)
      neg == Len(t) > 0 /\ Head(t) = "-"
      u == IF neg THEN Tail(t) ELSE t
      ds == LeadingDigits(u)
  IN IF Len(ds) = 0 THEN None
     ELSE Some(IF neg THEN 0 - DigitsValue(ds, 0) ELSE DigitsValue(ds, 0))

RECURSIVE Split(_, _)
\* s.split(":"), cur being the piece read so far
Split(s, cur) ==
  IF Len(s) = 0 THEN <<cur>>
  ELSE IF Head(s) = ":" THEN <<cur>> \o Split(Tail(s), <<>>)
  ELSE Split(Tail(s), Append(cur, Head(s)))

\* Number(s) of a piece of a time string: 0 for "", the value of a string of
\* digits, NaN otherwise
Number(s) ==
  IF Len(s) = 0 THEN Some(0)
  ELSE IF \A i \in 1..Len(s) : IsDigit(s[i]) THEN Some(DigitsValue(s, 0))
  ELSE None

\* h * 60 + m of the first two pieces; NaN when a piece is NaN or m is undefined
timeToMinutes(time) ==
  LET parts == Split(time, <<>>)
      h == Number(parts[1])
      m == IF Len(parts) >= 2 THEN Number(parts[2]) ELSE None
  IN IF IsSome(h) /\ IsSome(m) THEN Some(h[1] * 60 + m[1]) ELSE None

-----------------------------------------------------------------------------
(* src/lib/tide-utils.ts: parseTideEvents *)

\* the sentinel time "--:--" of an extremum that was not measured
Sentinel == <<"-", "-", ":", "-", "-">>

RECURSIVE pushEvents(_, _, _)
\* one of the two loops: every entry whose time is truthy and not the
\* sentinel is pushed with its parsed height and the list's type
pushEvents(acc, list, type) ==
  IF Len(list) = 0 THEN acc
  ELSE LET h == Head(list)
           keep == Len(h.time) > 0 /\ h.time # Sentinel
           ev == [time |-> h.time, height |-> parseInt(h.cm), type |-> type]
       IN pushEvents(IF keep THEN Append(acc, ev) ELSE acc, Tail(list), type)

RECURSIVE insertByTime(_, _)
\* e goes behind every element that does not compare greater: the sort is stable
insertByTime(sorted, e) ==
  IF Len(sorted) = 0 THEN <<e>>
  ELSE IF localeCompare(Head(sorted).time, e.time) <= 0
       THEN <<Head(sorted)>> \o insertByTime(Tail(sorted), e)
       ELSE <<e>> \o sorted

RECURSIVE sortByTime(_, _)
\* events.sort((a, b) => a.time.localeCompare(b.time))
sortByTime(arr, acc) ==
  IF Len(arr) = 0 THEN acc ELSE sortByTime(Tail(arr), insertByTime(acc, Head(arr)))

\* a bug: the events are returned in the order they were pushed
parseTideEvents_unsorted(d) ==
  LET afterHigh == IF IsSome(d.high) THEN pushEvents(<<>>, d.high[1], "high") ELSE <<>>
  IN IF IsSome(d.low) THEN pushEvents(afterHigh, d.low[1], "low") ELSE afterHigh

parseTideEvents(d) ==
  LET afterHigh == IF IsSome(d.high) THEN pushEvents(<<>>, d.high[1], "high") ELSE <<>>
      afterLow == IF IsSome(d.low) THEN pushEvents(afterHigh, d.low[1], "low") ELSE afterHigh
  IN sortByTime(afterLow, <<>>)

-----------------------------------------------------------------------------
(* src/lib/tide-utils.ts: estimateCurrentFlow *)

\* `${String(currentHour).padStart(2, "0")}:00`
currentTimeStr(hour) == padStart2(String(hour)) \o <<":", "0", "0">>

RECURSIVE findSurrounding_lastNext(_, _, _, _)
\* a bug: nextEvent is overwritten by every later event (the !nextEvent test is missing)
findSurrounding_lastNext(evs, cur, prev, next) ==
  IF Len(evs) = 0 THEN [prev |-> prev, next |-> next]
  ELSE LET event == Head(evs)
           p == IF StrLe(event.time, cur) THEN Some(event) ELSE prev
           n == IF StrGt(event.time, cur) THEN Some(event) ELSE next
       IN findSurrounding_lastNext(Tail(evs), cur, p, n)

RECURSIVE findSurrounding(_, _, _, _)
\* the loop over events: prevEvent is the last event at or before the time,
\* nextEvent the first one after it
findSurrounding(evs, cur, prev, next) ==
  IF Len(evs) = 0 THEN [prev |-> prev, next |-> next]
  ELSE LET event == Head(evs)
           p == IF StrLe(event.time, cur) THEN Some(event) ELSE prev
           n == IF StrGt(event.time, cur) /\ ~IsSome(next) THEN Some(event) ELSE next
       IN findSurrounding(Tail(evs), cur, p, n)

flipType(type) == IF type = "high" THEN "low" ELSE "high"

\* if (!prevEvent && nextEvent): the last event of the day with its type flipped
wrapPrev(evs, prev, next) ==
  IF ~IsSome(prev) /\ IsSome(next)
  THEN Some([evs[Len(evs)] EXCEPT !.type = flipType(@)])
  ELSE prev

\* a bug: no boundary is synthesized from the only event of a day
wrapNext_needsTwo(evs, prev, next) ==
  IF IsSome(prev) /\ ~IsSome(next) /\ Len(evs) > 1
  THEN Some([evs[1] EXCEPT !.type = flipType(@)])
  ELSE next

\* if (prevEvent && !nextEvent): the first event of the day with its type flipped
wrapNext(evs, prev, next) ==
  IF IsSome(prev) /\ ~IsSome(next)
  THEN Some([evs[1] EXCEPT !.type = flipType(@)])
  ELSE next

\* a bug: the quotient is taken whatever the sign of totalInterval
computeProgress_unguarded(prev, next, hour) ==
  <<hour * 60 - timeToMinutes(prev.time)[1],
    timeToMinutes(next.time)[1] - timeToMinutes(prev.time)[1]>>

\* progress as the fraction <<elapsed, totalInterval>>, or <<1, 2>> (0.5) when
\* totalInterval > 0 is false (also when a time is NaN).  The quotient of two
\* integers below 2^53 is the double nearest to the fraction, and so is the
\* literal it is compared with: comparing the fractions decides as the code does.
computeProgress(prev, next, hour) ==
  LET prevMinutes == timeToMinutes(prev.time)
      nextMinutes == timeToMinutes(next.time)
      currentMinutes == hour * 60
  IN IF IsSome(prevMinutes) /\ IsSome(nextMinutes) /\ nextMinutes[1] - prevMinutes[1] > 0
     THEN <<currentMinutes - prevMinutes[1], nextMinutes[1] - prevMinutes[1]>>
     ELSE <<1, 2>>

\* p < num / 100 and p > num / 100 for a fraction p with a positive denominator
ProgressLt(p, num) == p[1] * 100 < num * p[2]

ProgressGt(p, num) == p[1] * 100 > num * p[2]

\* a bug: the two directions are swapped
directionOf_swapped(prev) == IF prev.type = "high" THEN "Northward" ELSE "Southward"

directionOf(prev) == IF prev.type = "high" THEN "Southward" ELSE "Northward"

\* a bug: the thresholds 0.15 and 0.85 themselves count as weak
strengthOf_inclusive(p) ==
  IF ~ProgressGt(p, 15) \/ ~ProgressLt(p, 85) THEN "Weak"
  ELSE IF ProgressLt(p, 35) \/ ProgressGt(p, 65) THEN "Medium"
  ELSE "Strong"

\* a bug: the last branch tests progress < 0.65 and leaves strength unassigned at 0.65
strengthOf_unassigned(p) ==
  IF ProgressLt(p, 15) \/ ProgressGt(p, 85) THEN "Weak"
  ELSE IF ProgressLt(p, 35) \/ ProgressGt(p, 65) THEN "Medium"
  ELSE IF ProgressLt(p, 65) THEN "Strong"
  ELSE "undefined"

strengthOf(p) ==
  IF ProgressLt(p, 15) \/ ProgressGt(p, 85) THEN "Weak"
  ELSE IF ProgressLt(p, 35) \/ ProgressGt(p, 65) THEN "Medium"
  ELSE "Strong"

\* (height || 0): NaN and 0 give 0
OrZero(height) == IF IsSome(height) THEN height[1] ELSE 0

Abs(n) == IF n < 0 THEN 0 - n ELSE n

kindLabel(type) == IF type = "high" THEN "High" ELSE "Low"

\* the template string of the description, piece by piece
describe(prev, next) ==
  [text |-> "pair",
   pair |-> Some([prevKind |-> kindLabel(prev.type), prevTime |-> prev.time,
                  nextKind |-> kindLabel(next.type), nextTime |-> next.time,
                  heightDiff |-> Abs(OrZero(prev.height) - OrZero(next.height))])]

\* the function past its first statement: the search, the wrap-around, the
\* defensive return and the estimate; the locals at return and the value returned
estimateFromEvents(evs, hour) ==
  LET found == findSurrounding(evs, currentTimeStr(hour), None, None)
      prev == wrapPrev(evs, found.prev, found.next)
      next == wrapNext(evs, prev, found.next)
  IN IF ~IsSome(prev) \/ ~IsSome(next)
     THEN [prevEvent |-> prev, nextEvent |-> next, progress |-> None,
           flow |-> [direction |-> "Transitional", strength |-> "Weak",
                     description |-> [text |-> "cannot estimate", pair |-> None]]]
     ELSE LET p == computeProgress(prev[1], next[1], hour)
          IN [prevEvent |-> prev, nextEvent |-> next, progress |-> p,
              flow |-> [direction |-> directionOf(prev[1]),
                        strength |-> strengthOf(p),
                        description |-> describe(prev[1], next[1])]]

\* a bug: the empty list is not returned for first
estimateCurrentFlow_noEmptyCheck(evs, hour) == estimateFromEvents(evs, hour)

\* if (events.length === 0) return the "no data" estimate; else the rest
estimateCurrentFlow(evs, hour) ==
  IF Len(evs) = 0
  THEN [prevEvent |-> None, nextEvent |-> None, progress |-> None,
        flow |-> [direction |-> "Transitional", strength |-> "Weak",
                  description |-> [text |-> "no data", pair |-> None]]]
  ELSE estimateFromEvents(evs, hour)

-----------------------------------------------------------------------------
(* The inputs the two functions are applied to *)

\* Bounds
MaxRaw == 3

NumRawTimes == 2

MaxEvents == 3

NumTimes == 4

\* Times of day.  06:30 and 16:30 are 600 minutes apart, so that the full
\* hours between them fall on progress 0.15, 0.35, 0.65 and 0.85 exactly;
\* 09:00 is a full hour.
TimePool == <<HHMM(6, 30), HHMM(16, 30), HHMM(9, 0), HHMM(21, 15), HHMM(3, 10), HHMM(12, 40)>>

Times(n) == {TimePool[i] : i \in 1..(IF n < Len(TimePool) THEN n ELSE Len(TimePool))}

\* the cm strings of a response: "45", " -3.5" and ""
CmPool == {<<"4", "5">>, <<" ", "-", "3", ".", "5">>, <<>>}

\* all sequences over S of length 0..n
SeqsUpTo(S, n) == UNION {[1..k -> S] : k \in 0..n}

\* a response: high and low are arrays of {time, cm}, or undefined
RawEntries == [time : Times(NumRawTimes) \cup {Sentinel, <<>>}, cm : CmPool]

RawData ==
  LET lists == SeqsUpTo(RawEntries, MaxRaw)
      opt == {None} \cup {Some(l) : l \in lists}
      size(o) == IF IsSome(o) THEN Len(o[1]) ELSE 0
  IN {d \in [high : opt, low : opt] : size(d.high) + size(d.low) <= MaxRaw}

\* the days estimateCurrentFlow is applied to: what parseTideEvents returns for
\* the responses with measured times (highs of 210 cm, lows of 45 cm or NaN)
\* and at most MaxEvents entries
DayResponses ==
  LET highs == SeqsUpTo([time : Times(NumTimes), cm : {<<"2", "1", "0">>}], MaxEvents)
      lows == SeqsUpTo([time : Times(NumTimes), cm : {<<"4", "5">>, <<>>}], MaxEvents)
  IN {d \in [high : {Some(l) : l \in highs}, low : {Some(l) : l \in lows}] :
        Len(d.high[1]) + Len(d.low[1]) <= MaxEvents}

\* the two days of the documented scenarios
ScenarioDay ==
  <<[time |-> HHMM(8, 10), height |-> Some(45), type |-> "low"],
    [time |-> HHMM(14, 30), height |-> Some(210), type |-> "high"],
    [time |-> HHMM(20, 45), height |-> Some(50), type |-> "low"]>>

SingleEventDay == <<[time |-> HHMM(6, 0), height |-> Some(200), type |-> "high"]>>

Days == {parseTideEvents(d) : d \in DayResponses} \cup {ScenarioDay, SingleEventDay}

Hours == 0..23

-----------------------------------------------------------------------------
(* parseTideEvents applied to a response *)

ParseIdle ==
  /\ data = [high |-> None, low |-> None]
  /\ ppc = "idle"

FlowIdle ==
  /\ currentHour = 0
  /\ prevEvent = None
  /\ nextEvent = None
  /\ progress = None
  /\ flow = None
  /\ epc = "idle"

InitParse ==
  /\ data \in RawData
  /\ events = <<>>
  /\ ppc = "idle"
  /\ FlowIdle
  /\ SimIdle
  /\ PageIdle

ParseTideEvents ==
  /\ ppc = "idle"
  /\ events' = parseTideEvents(data)
  /\ ppc' = "parsed"
  /\ UNCHANGED <<data, currentHour, prevEvent, nextEvent, progress, flow, epc>>
  /\ UNCHANGED <<simVars, pageVars>>

NextParse == ParseTideEvents

SpecParse == InitParse /\ [][NextParse]_vars

-----------------------------------------------------------------------------
(* estimateCurrentFlow applied to a day's events at any hour *)

InitFlow ==
  /\ events \in Days
  /\ ParseIdle
  /\ FlowIdle
  /\ SimIdle
  /\ PageIdle

EstimateCurrentFlow ==
  \E hour \in Hours :
    LET r == estimateCurrentFlow(events, hour)
    IN /\ epc = "idle"
       /\ currentHour' = hour
       /\ prevEvent' = r.prevEvent
       /\ nextEvent' = r.nextEvent
       /\ progress' = r.progress
       /\ flow' = Some(r.flow)
       /\ epc' = "returned"
       /\ UNCHANGED <<data, events, ppc>>
       /\ UNCHANGED <<simVars, pageVars>>

NextFlow == EstimateCurrentFlow

SpecFlow == InitFlow /\ [][NextFlow]_vars

-----------------------------------------------------------------------------
(* Claims about parseTideEvents, checked under SpecParse *)

RawList(o) == IF IsSome(o) THEN o[1] ELSE <<>>

Measured(time) == time # <<>> /\ time # Sentinel

CountMeasured(list) == Cardinality({i \in 1..Len(list) : Measured(list[i].time)})

CountRaw(list, time, height) ==
  Cardinality({i \in 1..Len(list) : list[i].time = time /\ parseInt(list[i].cm) = height})

CountEvents(type, time, height) ==
  Cardinality({i \in 1..Len(events) :
                 events[i] = [time |-> time, height |-> height, type |-> type]})

\* C1: what parseTideEvents returns is sorted ascending by the time string,
\* holds no entry whose time is "--:--" or empty, holds every other raw entry
\* exactly once, and tags the entries of high as high and those of low as low.
C1_ParseSortedFilteredTagged ==
  ppc = "parsed" =>
    /\ \A i, j \in 1..Len(events) : i < j => StrLe(events[i].time, events[j].time)
    /\ \A i \in 1..Len(events) : Measured(events[i].time)
    /\ Len(events) = CountMeasured(RawList(data.high)) + CountMeasured(RawList(data.low))
    /\ \A time \in Times(NumRawTimes), cm \in CmPool :
         /\ CountEvents("high", time, parseInt(cm)) = CountRaw(RawList(data.high), time, parseInt(cm))
         /\ CountEvents("low", time, parseInt(cm)) = CountRaw(RawList(data.low), time, parseInt(cm))

\* a response whose high list holds a sentinel entry and a measured one that
\* is later than a measured low: the sort reorders, the filter drops
C1_Witness ==
  /\ ppc = "parsed"
  /\ Len(events) = 2
  /\ events[1].type = "low"
  /\ events[2].type = "high"
  /\ events[1].time # events[2].time
  /\ \E i \in 1..Len(RawList(data.high)) : data.high[1][i].time = Sentinel

-----------------------------------------------------------------------------
(* Claims about estimateCurrentFlow, checked under SpecFlow *)

Returned == epc = "returned"

\* minutes since midnight of a zero-padded "HH:MM", read off its digits
MinutesOfDay(t) ==
  (10 * DigitValue(t[1]) + DigitValue(t[2])) * 60 + 10 * DigitValue(t[4]) + DigitValue(t[5])

\* the times increase strictly and the types alternate, as on a real day
Alternating(evs) ==
  \A i \in 1..(Len(evs) - 1) :
    /\ MinutesOfDay(evs[i].time) < MinutesOfDay(evs[i + 1].time)
    /\ evs[i].type # evs[i + 1].type

\* the hour lies before the first event of the day, or at or after the last
BeforeFirst == currentHour * 60 < MinutesOfDay(events[1].time)

AfterLast == currentHour * 60 >= MinutesOfDay(events[Len(events)].time)

\* C2: for every hour in 0..23 and every non-empty event sequence the call
\* returns, with a direction among the three, a strength among the three and
\* a description; no field is undefined.
C2_EstimateIsTotal ==
  (Returned /\ Len(events) > 0) =>
    /\ IsSome(flow)
    /\ flow[1].direction \in {"Southward", "Northward", "Transitional"}
    /\ flow[1].strength \in {"Strong", "Medium", "Weak"}
    /\ flow[1].description.text \in {"pair", "cannot estimate", "no data"}

C2_Witness ==
  /\ Returned
  /\ Len(events) = MaxEvents
  /\ currentHour = 23
  /\ flow[1].strength = "Strong"

\* C3: whenever a pair resolves, the direction is Southward if the (real or
\* synthesized) prev event is a high and Northward if it is a low, whatever
\* next is.
C3_DirectionFromPrev ==
  (Returned /\ IsSome(prevEvent) /\ IsSome(nextEvent)) =>
    flow[1].direction = (IF prevEvent[1].type = "high" THEN "Southward" ELSE "Northward")

\* prev and next are both highs and the direction is that of prev
C3_Witness ==
  /\ Returned
  /\ IsSome(prevEvent) /\ IsSome(nextEvent)
  /\ prevEvent[1].type = "high"
  /\ nextEvent[1].type = "high"
  /\ flow[1].direction = "Southward"

\* C4: for a day whose types alternate and every hour, the pair prev/next
\* never has two events of one type, and the direction is Southward exactly
\* when the pair runs high -> low and Northward exactly when it runs low -> high.
C4_PairAlternates ==
  (Returned /\ Len(events) > 0 /\ Alternating(events)) =>
    /\ IsSome(prevEvent) /\ IsSome(nextEvent)
    /\ prevEvent[1].type # nextEvent[1].type
    /\ flow[1].direction = "Southward" <=>
         (prevEvent[1].type = "high" /\ nextEvent[1].type = "low")
    /\ flow[1].direction = "Northward" <=>
         (prevEvent[1].type = "low" /\ nextEvent[1].type = "high")

\* C5: strength follows from progress alone: Weak below 0.15 and above 0.85,
\* otherwise Medium below 0.35 and above 0.65, otherwise Strong; so Strong at
\* 0.5, Weak at 0, and the same at progress p and at 1 - p.
C5_StrengthThresholds ==
  (Returned /\ progress # None) =>
    LET n == progress[1]
        d == progress[2]
        weak == 20 * n < 3 * d \/ 20 * n > 17 * d
        strong == 20 * n >= 7 * d /\ 20 * n <= 13 * d
    IN /\ d > 0
       /\ flow[1].strength = (IF weak THEN "Weak" ELSE IF strong THEN "Strong" ELSE "Medium")
       /\ 2 * n = d => flow[1].strength = "Strong"
       /\ n = 0 => flow[1].strength = "Weak"
       /\ strengthOf(<<d - n, d>>) = flow[1].strength

\* progress is 0.15 exactly, which is Medium
C5_Witness ==
  /\ Returned
  /\ progress # None
  /\ 20 * progress[1] = 3 * progress[2]
  /\ flow[1].strength = "Medium"

\* C6: progress lies in [0, 1]: it is (hour * 60 - prevMinutes) / (nextMinutes
\* - prevMinutes) when nextMinutes > prevMinutes and 0.5 otherwise, as in
\* every wrap-around pair.
C6_ProgressInUnitInterval ==
  (Returned /\ progress # None) =>
    LET pm == MinutesOfDay(prevEvent[1].time)
        nm == MinutesOfDay(nextEvent[1].time)
    IN /\ progress[2] > 0
       /\ 0 <= progress[1] /\ progress[1] <= progress[2]
       /\ nm > pm => progress = <<currentHour * 60 - pm, nm - pm>>
       /\ nm <= pm => progress = <<1, 2>>
       /\ (BeforeFirst \/ AfterLast) => progress = <<1, 2>>

\* an hour before the first of several events: the pair wraps around
C6_Witness ==
  /\ Returned
  /\ Len(events) >= 2
  /\ BeforeFirst
  /\ MinutesOfDay(nextEvent[1].time) < MinutesOfDay(prevEvent[1].time)
  /\ progress = <<1, 2>>

\* C7: for the day Low 08:10 45cm, High 14:30 210cm, Low 20:45 50cm and hour
\* 11 the pair is (Low 08:10, High 14:30), the direction Northward and the
\* strength Strong.
C7_Scenario ==
  (Returned /\ events = ScenarioDay /\ currentHour = 11) =>
    /\ prevEvent = Some(ScenarioDay[1])
    /\ nextEvent = Some(ScenarioDay[2])
    /\ flow[1].direction = "Northward"
    /\ flow[1].strength = "Strong"

C7_Witness ==
  /\ Returned
  /\ events = ScenarioDay
  /\ currentHour = 11
  /\ progress = <<170, 380>>

\* C8: for a non-empty day and every hour both prev and next are set after
\* the wrap-around, and the defensive "cannot estimate" result is never
\* returned; the day High 06:00 200cm at hour 18 yields a pair.
C8_PairAlwaysResolves ==
  (Returned /\ Len(events) > 0) =>
    /\ IsSome(prevEvent)
    /\ IsSome(nextEvent)
    /\ flow[1].description.text = "pair"
    /\ IsSome(flow[1].description.pair)

C8_Witness ==
  /\ Returned
  /\ events = SingleEventDay
  /\ currentHour = 18
  /\ prevEvent = Some(SingleEventDay[1])
  /\ nextEvent = Some([SingleEventDay[1] EXCEPT !.type = "low"])
  /\ flow[1].description.text = "pair"

\* C9: for the empty list and any hour the result is exactly Transitional,
\* Weak, "no data", returned before any search or arithmetic: prevEvent,
\* nextEvent and progress are never assigned.
C9_EmptyListNoData ==
  (Returned /\ Len(events) = 0) =>
    /\ flow = Some([direction |-> "Transitional", strength |-> "Weak",
                    description |-> [text |-> "no data", pair |-> None]])
    /\ prevEvent = None
    /\ nextEvent = None
    /\ progress = None

C9_Witness ==
  /\ Returned
  /\ Len(events) = 0
  /\ currentHour = 12
  /\ flow[1].description.text = "no data"

-----------------------------------------------------------------------------
(* src/components/AkashiStraitMap.tsx                                      *)
(*                                                                         *)
(* Numbers are fixed-point: positions x, y and sizeRef.h in 1/10 px, speed *)
(* in 1/1000 px per frame, life and maxLife in 1/1000 frame, opacity in    *)
(* 1/30000, a value of Math.random() in 1/1000.  sizeRef.w is in px and    *)
(* sizeRef.scale is w / 800.  The widths and the random values that occur  *)
(* are such that every product the code forms is exact in these units,     *)
(* except the displacement of a particle, which is rounded to 1/10 px.     *)

NORTH_COAST ==
  <<
     <<0, 145>>, <<40, 140>>, <<80, 130>>, <<110, 122>>, <<140, 118>>,
     <<170, 120>>, <<200, 128>>, <<230, 135>>, <<260, 130>>, <<290, 125>>,
     <<310, 118>>, <<330, 110>>, <<350, 105>>, <<380, 108>>, <<410, 115>>,
     <<440, 120>>, <<470, 118>>, <<500, 112>>, <<530, 108>>, <<560, 110>>,
     <<590, 115>>, <<620, 120>>, <<650, 125>>, <<680, 130>>, <<720, 138>>,
     <<760, 145>>, <<800, 150>>
  >>

SOUTH_COAST ==
  <<
     <<0, 420>>, <<40, 430>>, <<80, 445>>, <<110, 455>>, <<140, 458>>,
     <<170, 455>>, <<200, 448>>, <<230, 440>>, <<260, 445>>, <<290, 452>>,
     <<310, 460>>, <<330, 468>>, <<350, 472>>, <<380, 468>>, <<410, 460>>,
     <<440, 455>>, <<470, 458>>, <<500, 465>>, <<530, 470>>, <<560, 468>>,
     <<590, 462>>, <<620, 455>>, <<650, 450>>, <<680, 445>>, <<720, 438>>,
     <<760, 430>>, <<800, 425>>
  >>

Min(a, b) == IF a < b THEN a ELSE b

Max(a, b) == IF a > b THEN a ELSE b

\* n / d rounded to the nearest integer, d > 0
Round(n, d) == (2 * n + d) \div (2 * d)

\* v * sizeRef.current.scale, v in px, in 1/10 px
Scaled(v, w) == (v * w) \div 80

getBaseSpeed(strength) ==
  CASE strength = "strong" -> 2500
    [] strength = "medium" -> 1500
    [] strength = "weak" -> 700

getParticleCount(strength) ==
  CASE strength = "strong" -> 300
    [] strength = "medium" -> 180
    [] strength = "weak" -> 80

RECURSIVE segmentOf(_, _, _, _)
\* the first i with coast[i].x <= nx <= coast[i + 1].x, where nx = n / w; 0 if none
segmentOf(coast, n, w, i) ==
  IF i >= Len(coast) THEN 0
  ELSE IF n >= coast[i][1] * w /\ n <= coast[i + 1][1] * w THEN i
  ELSE segmentOf(coast, n, w, i + 1)

\* the coast's y interpolated at nx = n / w, or the default; as <<num, den>>
\* with y * w = num / den
coastY(coast, default, n, w) ==
  LET i == segmentOf(coast, n, w, 1)
  IN IF i = 0 THEN <<default * w, 1>>
     ELSE LET dx == coast[i + 1][1] - coast[i][1]
              dy == coast[i + 1][2] - coast[i][2]
          IN <<coast[i][2] * w * dx + (n - coast[i][1] * w) * dy, dx>>

\* a bug: the margin is 15 px whatever the scale
isInWater_fixedMargin(x, y, size) ==
  LET n == 80 * x
      north == coastY(NORTH_COAST, 145, n, size.w)
      south == coastY(SOUTH_COAST, 420, n, size.w)
  IN /\ 80 * y * north[2] > north[1] + 15 * 800 * north[2]
     /\ 80 * y * south[2] < south[1] - 15 * 800 * south[2]

\* y > northY * scale + margin && y < southY * scale - margin, margin = 15 * scale;
\* nx = (x / w) * 800 is n / w with n = 80 * x for x in 1/10 px
isInWater(x, y, size) ==
  LET n == 80 * x
      north == coastY(NORTH_COAST, 145, n, size.w)
      south == coastY(SOUTH_COAST, 420, n, size.w)
  IN /\ 80 * y * north[2] > north[1] + 15 * size.w * north[2]
     /\ 80 * y * south[2] < south[1] - 15 * size.w * south[2]

\* The values Math.random() returns, in 1/1000, per place of call.  A handler
\* run draws from one of a few fixed streams: stream s returns
\* pool[(n + s) mod length] at the call numbered n, except that stream 0
\* returns 0 at each call numbered below ZeroRun.
ZeroRun == 44

XDraws == <<0, 30, 500, 970, 250, 750, 100>>

YDraws == <<0, 500, 980, 20, 300>>

MaxLifeDraws == <<0, 500, 995>>

LifeDraws == <<0, 995, 500, 990>>

SpeedDraws == <<0, 500, 900>>

AngleDraws == <<0, 500, 995>>

Draw(pool, seed, n) ==
  IF seed = 0 /\ n < ZeroRun THEN 0 ELSE pool[((n + seed) % Len(pool)) + 1]

RECURSIVE samplePoint_forty(_, _, _, _)
\* a bug: up to 40 samples are taken
samplePoint_forty(size, seed, n, attempts) ==
  LET k == attempts + 1
      x == (Draw(XDraws, seed, n + k) * size.w) \div 100
      y == Scaled(150, size.w) + (Draw(YDraws, seed, n + 2 * k) * 270 * size.w) \div 80000
  IN IF ~isInWater(x, y, size) /\ k < 40
     THEN samplePoint_forty(size, seed, n, k)
     ELSE [x |-> x, y |-> y, attempts |-> k]

RECURSIVE samplePoint(_, _, _, _)
\* the do-while loop of createParticle, attempts being the samples taken so
\* far: sample again while the point is not in the water and attempts < 20
samplePoint(size, seed, n, attempts) ==
  LET k == attempts + 1
      x == (Draw(XDraws, seed, n + k) * size.w) \div 100
      y == Scaled(150, size.w) + (Draw(YDraws, seed, n + 2 * k) * 270 * size.w) \div 80000
  IN IF ~isInWater(x, y, size) /\ k < 20
     THEN samplePoint(size, seed, n, k)
     ELSE [x |-> x, y |-> y, attempts |-> k]

\* a bug: every particle is created with life 0
createParticle_ageZero(size, strength, seed, n) ==
  LET point == samplePoint(size, seed, n, 0)
      maxLife == 100000 + 200 * Draw(MaxLifeDraws, seed, n)
  IN [x |-> point.x,
      y |-> point.y,
      speed |-> (getBaseSpeed(strength) * (500 + Draw(SpeedDraws, seed, n \div 3)) * (size.w \div 80)) \div 10000,
      opacity |-> 0,
      life |-> 0,
      maxLife |-> maxLife]

\* createParticle with the strength of its closure; n numbers the call
createParticle(size, strength, seed, n) ==
  LET point == samplePoint(size, seed, n, 0)
      maxLife == 100000 + 200 * Draw(MaxLifeDraws, seed, n)
  IN [x |-> point.x,
      y |-> point.y,
      speed |-> (getBaseSpeed(strength) * (500 + Draw(SpeedDraws, seed, n \div 3)) * (size.w \div 80)) \div 10000,
      opacity |-> 0,
      life |-> (Draw(LifeDraws, seed, n) * (maxLife \div 1000)),
      maxLife |-> maxLife]

\* cos and sin of flowAngle in 1/1000, for the three values of the jitter
flowAngle(direction, r) ==
  CASE direction = "south" /\ r = 0 -> <<-7, 1000>>
    [] direction = "south" /\ r = 500 -> <<-156, 988>>
    [] direction = "south" /\ r = 995 -> <<-301, 954>>
    [] direction = "north" /\ r = 0 -> <<-302, -953>>
    [] direction = "north" /\ r = 500 -> <<-156, -988>>
    [] direction = "north" /\ r = 995 -> <<-9, -1000>>
    [] direction = "slack" /\ r = 0 -> <<969, -247>>
    [] direction = "slack" /\ r = 500 -> <<1000, 0>>
    [] direction = "slack" /\ r = 995 -> <<970, 245>>

\* a bug: fadeIn is not capped at 1
fade_uncapped(life, maxLife) ==
  Min(life, Max(0, 30000 - (life - maxLife + 30000)))

\* p.opacity = min(fadeIn, fadeOut) for the incremented life
fade(life, maxLife) ==
  LET fadeIn == Min(life, 30000)
      fadeOut == Max(0, 30000 - (life - maxLife + 30000))
  IN Min(fadeIn, fadeOut)

\* a bug: an expired particle is kept
expired_never(life, maxLife) == FALSE

\* a bug: a particle whose life has reached maxLife is replaced one frame early
expired_orInvisible(life, maxLife) == life >= maxLife

\* if (p.life > p.maxLife)
expired(life, maxLife) == life > maxLife

\* a bug: land reflects nothing and absorbs nothing, the particle stays where it moved
leftWater_never(x, y, size) == FALSE

\* if (!isInWater(p.x, p.y))
leftWater(x, y, size) == ~isInWater(x, y, size)

\* the body of animate's loop for particles[i]: the particle it leaves at i
\* and what it did
animateParticle(p, i, direction, strength, size, seed) ==
  LET life == p.life + 1000
      opacity == fade(life, p.maxLife)
      fresh == [createParticle(size, strength, seed, i + 1) EXCEPT !.life = 0]
      attempts == samplePoint(size, seed, i + 1, 0).attempts
      angle == flowAngle(direction, Draw(AngleDraws, seed, i))
      speedMult == IF direction = "slack" THEN 20 ELSE 100
      x1 == p.x + Round(angle[1] * p.speed * speedMult, 10000000)
      y1 == p.y + Round(angle[2] * p.speed * speedMult, 10000000)
      x2 == IF x1 > 10 * size.w + 100 THEN -100 ELSE x1
      x3 == IF x2 < -100 THEN 10 * size.w + 100 ELSE x2
      y2 == IF y1 > size.h THEN Scaled(150, size.w) ELSE y1
      y3 == IF y2 < Scaled(140, size.w) THEN Scaled(420, size.w) ELSE y2
  IN IF expired(life, p.maxLife)
     THEN [p |-> fresh, step |-> [event |-> "expired", attempts |-> attempts]]
     ELSE IF leftWater(x3, y3, size)
     THEN [p |-> fresh, step |-> [event |-> "left water", attempts |-> attempts]]
     ELSE [p |-> [p EXCEPT !.life = life, !.opacity = opacity, !.x = x3, !.y = y3],
           step |-> [event |-> "moved", attempts |-> 0]]

\* the results of the loop's body, particle by particle in the order of the array
loopResults(particles, direction, strength, size, seed) ==
  SubSeq([i \in 1..Len(particles) |->
            animateParticle(particles[i], i, direction, strength, size, seed)],
         1, Len(particles))

\* a bug: a particle that expires or leaves the water is removed, not replaced
animate_removing(particles, direction, strength, size, seed) ==
  LET keep == SelectSeq(loopResults(particles, direction, strength, size, seed),
                        LAMBDA e : e.step.event = "moved")
  IN [particles |-> [i \in 1..Len(keep) |-> keep[i].p],
      steps |-> [i \in 1..Len(keep) |-> keep[i].step]]

\* animate: the loop over particlesRef.current
animate(particles, direction, strength, size, seed) ==
  LET r == loopResults(particles, direction, strength, size, seed)
  IN [particles |-> [i \in 1..Len(r) |-> r[i].p],
      steps |-> [i \in 1..Len(r) |-> r[i].step]]

\* resize: w = rect.width || 800, h = min(w * 0.75, innerHeight * 0.6)
resize(view) ==
  LET w == IF view.width = 0 THEN 800 ELSE view.width
  IN [w |-> w, h |-> Min((w * 75) \div 10, view.innerHeight * 6)]

\* a bug: the particles that are there are kept, only missing ones are created
initParticles_keeping(size, strength, seed) ==
  [i \in 1..getParticleCount(strength) |->
     IF i <= Len(particlesRef) THEN particlesRef[i]
     ELSE createParticle(size, strength, seed, i)]

\* the loop that fills particlesRef.current
initParticles(size, strength, seed) ==
  [i \in 1..getParticleCount(strength) |-> createParticle(size, strength, seed, i)]

\* The component under its host: the props it is rendered with, the size of
\* its canvas's box and of the window, the frames requested and not yet run.
MaxFrames == 1

MaxEffectRuns == 2

NumSeeds == 2

Seeds == 0..(NumSeeds - 1)

PropsPool ==
  { [direction |-> "south", strength |-> "strong"],
    [direction |-> "north", strength |-> "medium"],
    [direction |-> "slack", strength |-> "weak"] }

Viewports ==
  { [width |-> 800, innerHeight |-> 1000],
    [width |-> 400, innerHeight |-> 400] }

\* the body of the effect, lines 128-343, run with the props of this render:
\* resize(), the listener, the particles, the first call of animate
setup(seed) ==
  LET size == resize(viewport)
      first == animate(initParticles(size, props.strength, seed),
                       props.direction, props.strength, size, seed)
  IN /\ effect' = Some(props)
     /\ sizeRef' = size
     /\ particlesRef' = first.particles
     /\ lastStep' = first.steps
     /\ animFrameRef' = nextFrameId
     /\ nextFrameId' = nextFrameId + 1
     /\ effectRuns' = effectRuns + 1

\* a bug: the cleanup removes the listener and cancels no frame
cleanupFrames_kept == frames

\* the frames left and the listeners left by the effect's cleanup:
\* cancelAnimationFrame(animFrameRef.current)
cleanupFrames == {f \in frames : f.id # animFrameRef}

cleanupListeners == listeners \ {effectRuns}

\* the frame requested by the effect's body: its callback is the animate of
\* this run of the effect, which closes over this run's direction and strength
requested ==
  [id |-> nextFrameId, run |-> effectRuns + 1,
   direction |-> props.direction, strength |-> props.strength]

InitSim ==
  /\ data = [high |-> None, low |-> None]
  /\ events = <<>>
  /\ ppc = "idle"
  /\ FlowIdle
  /\ props \in PropsPool
  /\ effect = <<>>
  /\ viewport = [width |-> 800, innerHeight |-> 1000]
  /\ sizeRef = [w |-> 800, h |-> 6000]
  /\ particlesRef = <<>>
  /\ lastStep = <<>>
  /\ animFrameRef = 0
  /\ frames = {}
  /\ listeners = {}
  /\ nextFrameId = 1
  /\ effectRuns = 0
  /\ frameCount = 0
  /\ mounted = FALSE
  /\ PageIdle

\* the first render: the effect runs once
Mount ==
  /\ ~mounted
  /\ effectRuns = 0
  /\ \E seed \in Seeds : setup(seed)
  /\ frames' = {requested}
  /\ listeners' = {effectRuns + 1}
  /\ mounted' = TRUE
  /\ UNCHANGED <<tideVars, pageVars, props, viewport, frameCount>>

\* the host renders the component with another direction and strength
PropsChange ==
  /\ mounted
  /\ effect = Some(props)
  /\ effectRuns < MaxEffectRuns
  /\ \E next \in PropsPool \ {props} : props' = next
  /\ UNCHANGED <<tideVars, pageVars, effect, viewport, sizeRef, particlesRef, lastStep, animFrameRef,
                 frames, listeners, nextFrameId, effectRuns, frameCount, mounted>>

\* a dependency of the effect changed: its cleanup runs, then its body
Reconfigure ==
  /\ mounted
  /\ IsSome(effect)
  /\ effect # Some(props)
  /\ \E seed \in Seeds : setup(seed)
  /\ frames' = cleanupFrames \cup {requested}
  /\ listeners' = cleanupListeners \cup {effectRuns + 1}
  /\ UNCHANGED <<tideVars, pageVars, props, viewport, frameCount, mounted>>

\* the browser runs a requested frame: animate, with the direction and the
\* createParticle of the effect run that defined it, and requests the next
Frame ==
  /\ frameCount < MaxFrames
  /\ \E f \in frames, seed \in Seeds :
       LET r == animate(particlesRef, f.direction, f.strength, sizeRef, seed)
       IN /\ particlesRef' = r.particles
          /\ lastStep' = r.steps
          /\ frames' = (frames \ {f}) \cup {[f EXCEPT !.id = nextFrameId]}
  /\ animFrameRef' = nextFrameId
  /\ nextFrameId' = nextFrameId + 1
  /\ frameCount' = frameCount + 1
  /\ UNCHANGED <<tideVars, pageVars, props, effect, viewport, sizeRef, listeners, effectRuns, mounted>>

\* the window is resized: the registered listener measures the canvas again
Resize ==
  /\ mounted
  /\ \E view \in Viewports \ {viewport} :
       /\ viewport' = view
       /\ sizeRef' = IF listeners # {} THEN resize(view) ELSE sizeRef
  /\ UNCHANGED <<tideVars, pageVars, props, effect, particlesRef, lastStep, animFrameRef, frames,
                 listeners, nextFrameId, effectRuns, frameCount, mounted>>

\* the component is removed: the effect's cleanup runs
Unmount ==
  /\ mounted
  /\ IsSome(effect)
  /\ frames' = cleanupFrames
  /\ listeners' = cleanupListeners
  /\ effect' = None
  /\ mounted' = FALSE
  /\ UNCHANGED <<tideVars, pageVars, props, viewport, sizeRef, particlesRef, lastStep, animFrameRef,
                 nextFrameId, effectRuns, frameCount>>

NextSim == Mount \/ PropsChange \/ Reconfigure \/ Frame \/ Resize \/ Unmount

SpecSim == InitSim /\ [][NextSim]_vars

-----------------------------------------------------------------------------
\* C10: once the effect has initialised the population, and after every frame
\* and every resize that follows, the number of particles is the one fixed by
\* the strength of the last initialisation: 300 for strong, 180 for medium,
\* 80 for weak; a frame and a resize leave as many particles as they found.
C10_PopulationInvariant ==
  IsSome(effect) =>
    /\ Len(particlesRef) = (CASE effect[1].strength = "strong" -> 300
                              [] effect[1].strength = "medium" -> 180
                              [] effect[1].strength = "weak" -> 80)
    /\ Len(lastStep) = Len(particlesRef)

\* a frame has run after a resize to the narrow canvas (no particle is left
\* beyond its right edge) and has replaced particles of both kinds
C10_Witness ==
  /\ IsSome(effect)
  /\ effect[1].strength = "medium"
  /\ frameCount > 0
  /\ sizeRef.w = 400
  /\ Len(particlesRef) = 180
  /\ \A i \in 1..Len(particlesRef) : particlesRef[i].x <= 4100
  /\ \E i \in 1..Len(lastStep) : lastStep[i].event = "expired"
  /\ \E i \in 1..Len(lastStep) : lastStep[i].event = "left water"

-----------------------------------------------------------------------------
\* a step of the component that ran animate: the effect's body or a frame
Ticked == frameCount' # frameCount \/ effectRuns' # effectRuns

\* C11: in every state every particle's opacity lies in [0, 1] (0..30000 in
\* units of 1/30000): at spawn, after every frame, after a respawn.
C11_OpacityInUnitInterval ==
  \A i \in 1..Len(particlesRef) :
    /\ particlesRef[i].opacity >= 0
    /\ particlesRef[i].opacity <= 30000

\* after a frame one particle is fully opaque, one is fading and one is
\* transparent
C11_Witness ==
  /\ frameCount > 0
  /\ \E i \in 1..Len(particlesRef) : particlesRef[i].opacity = 30000
  /\ \E i \in 1..Len(particlesRef) :
       particlesRef[i].opacity > 0 /\ particlesRef[i].opacity < 30000
  /\ \E i \in 1..Len(particlesRef) : particlesRef[i].opacity = 0

\* points of the 800 x 600 base drawing, in px
ProbePoints == {<<x, y>> : x \in {100 * k : k \in 0..8}, y \in {110 + 20 * k : k \in 0..19}}

BaseSize == [w |-> 800, h |-> 6000]

\* C12 as stated: for a fixed point of the canvas (in px) isInWater answers
\* in every state what it answers at construction, whatever frames, effect
\* runs and resizes have happened.
C12_ContainmentStable ==
  \A pt \in ProbePoints :
    isInWater(10 * pt[1], 10 * pt[2], sizeRef) = isInWater(10 * pt[1], 10 * pt[2], BaseSize)

\* C12 amended: isInWater depends on the coastline data and on the canvas
\* width in sizeRef, which a resize changes: in every state it answers for
\* the point (x * scale, y * scale) of the canvas what it answers for the
\* point (x, y) of the base drawing.
C12_ContainmentRelativeToCanvas ==
  \A pt \in ProbePoints :
    isInWater(Scaled(pt[1], sizeRef.w), Scaled(pt[2], sizeRef.w), sizeRef)
      = isInWater(10 * pt[1], 10 * pt[2], BaseSize)

\* after a resize to the narrow canvas and a frame, the pixel (300, 300) that
\* was water is land, and the pixel (150, 150) it scales to is water
C12_Witness ==
  /\ sizeRef.w = 400
  /\ frameCount > 0
  /\ isInWater(3000, 3000, BaseSize)
  /\ ~isInWater(3000, 3000, sizeRef)
  /\ isInWater(1500, 1500, sizeRef)

-----------------------------------------------------------------------------
(* src/app/page.tsx: Home                                                  *)
(*                                                                         *)
(* A Date is the pair of its day and its hour; toDateString() compares the *)
(* days.  The state updates one event handler or one continuation of       *)
(* fetchTide makes are one render, and the effects whose dependencies      *)
(* changed run with it.                                                    *)

MaxDate == 3

MaxDateChanges == 2

MaxClockSteps == 2

MaxFetches == 4

Dates == 1..MaxDate

\* what /api/tide answers for a day: one high tide, the documented day, or
\* lists without entries
Response(date) ==
  CASE date = 1 ->
         [high |-> Some(<<[time |-> HHMM(6, 0), cm |-> <<"2", "0", "0">>]>>),
          low |-> Some(<<>>)]
    [] date = 2 ->
         [high |-> Some(<<[time |-> HHMM(14, 30), cm |-> <<"2", "1", "0">>]>>),
          low |-> Some(<<[time |-> HHMM(8, 10), cm |-> <<"4", "5">>],
                        [time |-> HHMM(20, 45), cm |-> <<"5", "0">>]>>)]
    [] OTHER -> [high |-> Some(<<>>), low |-> Some(<<>>)]

\* the interval effect, lines 56-64, for the state of this render
intervalEffect(date, evs, clock) == IF date # clock.day THEN None ELSE Some(evs)

\* the first render and its effects: fetchTide(selectedDate) awaits its
\* response, the interval runs with the empty tideEvents
InitPage ==
  /\ ParseIdle
  /\ events = <<>>
  /\ FlowIdle
  /\ SimIdle
  /\ now \in {[day |-> 2, hour |-> 12], [day |-> 2, hour |-> 23]}
  /\ selectedDate = 2
  /\ tideEvents = <<>>
  /\ currentFlow = None
  /\ loading = TRUE
  /\ error = FALSE
  /\ fetches = {[id |-> 1, date |-> 2]}
  /\ interval = Some(<<>>)
  /\ shown = [date |-> 0, hour |-> 0, by |-> "none"]
  /\ nextFetchId = 2
  /\ clockSteps = 0
  /\ dateChanges = 0

\* handleDateChange / moveDate: setSelectedDate; the fetch effect calls
\* fetchTide up to its await, the interval effect is set up again
DateChange ==
  /\ dateChanges < MaxDateChanges
  /\ nextFetchId <= MaxFetches
  /\ \E date \in Dates \ {selectedDate} :
       /\ selectedDate' = date
       /\ fetches' = fetches \cup {[id |-> nextFetchId, date |-> date]}
       /\ interval' = intervalEffect(date, tideEvents, now)
  /\ loading' = TRUE
  /\ error' = FALSE
  /\ nextFetchId' = nextFetchId + 1
  /\ dateChanges' = dateChanges + 1
  /\ UNCHANGED <<tideVars, simVars, now, tideEvents, currentFlow, shown, clockSteps>>

\* the retry button: fetchTide(selectedDate) up to its await
Retry ==
  /\ error
  /\ ~loading
  /\ nextFetchId <= MaxFetches
  /\ fetches' = fetches \cup {[id |-> nextFetchId, date |-> selectedDate]}
  /\ loading' = TRUE
  /\ error' = FALSE
  /\ nextFetchId' = nextFetchId + 1
  /\ UNCHANGED <<tideVars, simVars, now, selectedDate, tideEvents, currentFlow, interval,
                 shown, clockSteps, dateChanges>>

\* a response arrives: fetchTide from line 33 to its end
FetchOk ==
  /\ \E f \in fetches :
       LET evs == parseTideEvents(Response(f.date))
           hour == IF f.date = now.day THEN now.hour ELSE 12
       IN /\ tideEvents' = evs
          /\ currentFlow' = Some(estimateCurrentFlow(evs, hour).flow)
          /\ interval' = intervalEffect(selectedDate, evs, now)
          /\ shown' = [date |-> f.date, hour |-> hour, by |-> "fetch"]
          /\ fetches' = fetches \ {f}
  /\ loading' = FALSE
  /\ UNCHANGED <<tideVars, simVars, now, selectedDate, error, nextFetchId, clockSteps,
                 dateChanges>>

\* the request fails or answers with an error status: the catch block
FetchFail ==
  /\ \E f \in fetches :
       /\ shown' = [date |-> f.date, hour |-> 0, by |-> "none"]
       /\ fetches' = fetches \ {f}
  /\ tideEvents' = <<>>
  /\ currentFlow' = None
  /\ interval' = intervalEffect(selectedDate, <<>>, now)
  /\ error' = TRUE
  /\ loading' = FALSE
  /\ UNCHANGED <<tideVars, simVars, now, selectedDate, nextFetchId, clockSteps, dateChanges>>

\* the interval's callback, once a minute
IntervalFire ==
  /\ IsSome(interval)
  /\ Len(interval[1]) > 0
  /\ currentFlow' = Some(estimateCurrentFlow(interval[1], now.hour).flow)
  /\ shown' = [shown EXCEPT !.hour = now.hour, !.by = "interval"]
  /\ UNCHANGED <<tideVars, simVars, now, selectedDate, tideEvents, loading, error, fetches,
                 interval, nextFetchId, clockSteps, dateChanges>>

\* an hour passes; after 23 comes hour 0 of the next day
ClockAdvance ==
  /\ clockSteps < MaxClockSteps
  /\ now' = IF now.hour = 23 THEN [day |-> now.day + 1, hour |-> 0]
            ELSE [now EXCEPT !.hour = @ + 1]
  /\ clockSteps' = clockSteps + 1
  /\ UNCHANGED <<tideVars, simVars, selectedDate, tideEvents, currentFlow, loading, error,
                 fetches, interval, shown, nextFetchId, dateChanges>>

NextPage == DateChange \/ Retry \/ FetchOk \/ FetchFail \/ IntervalFire \/ ClockAdvance

SpecPage == InitPage /\ [][NextPage]_vars

\* C13: while the selected date is the current date the interval that
\* recomputes the estimate from the clock's hour every minute is running;
\* while it is another date no interval is running, and the estimate shown
\* for that date is the one fetchTide computed for hour 12. This is to hold
\* after any date changes and clock advances, midnight included.
Recomputing == IsSome(interval) /\ Len(interval[1]) > 0

C13_EstimateCadence ==
  /\ (selectedDate = now.day /\ Len(tideEvents) > 0) =>
       (Recomputing /\ interval[1] = tideEvents)
  /\ selectedDate # now.day =>
       /\ ~Recomputing
       /\ (~loading /\ ~error /\ shown.date = selectedDate) =>
            (shown.by = "fetch" /\ shown.hour = 12)

-----------------------------------------------------------------------------
\* C14: for a day whose times increase and whose types alternate, and an
\* hour whose HH:00 is the time of an event of the day, the strength
\* returned is Weak, also when that event is the last of the day.
C14_WeakAtTurningPoints ==
  (/\ Returned
   /\ Len(events) > 0
   /\ Alternating(events)
   /\ \E i \in 1..Len(events) : MinutesOfDay(events[i].time) = currentHour * 60) =>
    flow[1].strength = "Weak"

-----------------------------------------------------------------------------
\* the particle createParticle returns in a stream of draws, with life set to 0
Respawned(p, i, size, strength) ==
  \E seed \in Seeds : p = [createParticle(size, strength, seed, i + 1) EXCEPT !.life = 0]

\* C15: after the effect's body and after every frame every particle has
\* life <= maxLife; a particle whose life exceeds maxLife in a frame is
\* replaced in that frame by what createParticle returns, with life 0 and
\* opacity 0, neither moved nor faded.
C15_NoDeadParticle ==
  [][Ticked =>
       /\ \A i \in 1..Len(particlesRef') :
            /\ particlesRef'[i].life <= particlesRef'[i].maxLife
            /\ lastStep'[i].event = "expired" =>
                 Respawned(particlesRef'[i], i, sizeRef', effect'[1].strength)
       /\ frameCount' # frameCount =>
            \A i \in 1..Len(particlesRef) :
              particlesRef[i].life + 1000 > particlesRef[i].maxLife =>
                lastStep'[i].event = "expired"]_vars

\* a frame replaced an expired particle and left one whose life equals its
\* maxLife
C15_Witness ==
  /\ frameCount > 0
  /\ \E i \in 1..Len(particlesRef) :
       lastStep[i].event = "expired" /\ particlesRef[i].life = 0
  /\ \E i \in 1..Len(particlesRef) :
       lastStep[i].event = "moved" /\ particlesRef[i].life = particlesRef[i].maxLife

\* C16: land absorbs: in the effect's first animate and in every frame a
\* particle whose displaced position is not in the water is replaced by what
\* createParticle returns; so after it every particle that was not replaced
\* is at a point for which isInWater holds.
C16_LandAbsorbs ==
  [][Ticked =>
       \A i \in 1..Len(particlesRef') :
         /\ lastStep'[i].event = "moved" =>
              isInWater(particlesRef'[i].x, particlesRef'[i].y, sizeRef')
         /\ lastStep'[i].event = "left water" =>
              Respawned(particlesRef'[i], i, sizeRef', effect'[1].strength)]_vars

\* a frame has replaced a particle that left the water; one replacement is
\* itself on land, every particle that moved is in the water
C16_Witness ==
  /\ frameCount > 0
  /\ \E i \in 1..Len(particlesRef) :
       /\ lastStep[i].event = "left water"
       /\ ~isInWater(particlesRef[i].x, particlesRef[i].y, sizeRef)
  /\ \E i \in 1..Len(particlesRef) : lastStep[i].event = "moved"
  /\ \A i \in 1..Len(particlesRef) :
       lastStep[i].event = "moved" => isInWater(particlesRef[i].x, particlesRef[i].y, sizeRef)

\* C17 as stated: a particle whose incremented life exceeds maxLife or whose
\* new opacity is 0 or less is replaced and not processed further; so a
\* particle that animate kept and moved has a positive opacity.
C17_ReplacedWhenInvisible ==
  [][Ticked =>
       \A i \in 1..Len(particlesRef') :
         lastStep'[i].event = "moved" =>
           /\ particlesRef'[i].life <= particlesRef'[i].maxLife
           /\ particlesRef'[i].opacity > 0]_vars

\* C17 amended: animate replaces a particle exactly when its incremented
\* life exceeds maxLife. A particle whose life has reached maxLife has
\* opacity 0 and is kept, moved and drawn (transparent) in that frame; it is
\* replaced in the next one.
C17_ReplacedWhenExpired ==
  [][Ticked =>
       /\ \A i \in 1..Len(particlesRef') :
            lastStep'[i].event = "moved" =>
              /\ particlesRef'[i].opacity = fade(particlesRef'[i].life, particlesRef'[i].maxLife)
              /\ particlesRef'[i].opacity = 0 <=> particlesRef'[i].life = particlesRef'[i].maxLife
       /\ frameCount' # frameCount =>
            \A i \in 1..Len(particlesRef) :
              lastStep'[i].event = "expired" <=>
                particlesRef[i].life + 1000 > particlesRef[i].maxLife]_vars

\* a frame kept and moved a particle whose life reached maxLife in it: its
\* opacity is 0
C17_Witness ==
  /\ frameCount > 0
  /\ effectRuns = 1
  /\ \E i \in 1..Len(particlesRef) :
       /\ lastStep[i].event = "moved"
       /\ particlesRef[i].life = particlesRef[i].maxLife
       /\ particlesRef[i].life = 200000
       /\ particlesRef[i].opacity = 0

\* C18 as stated: every particle the effect's body creates starts at life
\* 0 (so it has life 1 after the body's first animate), and every particle
\* animate creates in place of another starts at a life in [0, maxLife).
C18_AgeZeroAtConfigure ==
  [][Ticked =>
       \A i \in 1..Len(particlesRef') :
         /\ (effectRuns' # effectRuns /\ lastStep'[i].event = "moved") =>
              particlesRef'[i].life = 1000
         /\ lastStep'[i].event # "moved" =>
              (particlesRef'[i].life >= 0 /\ particlesRef'[i].life < particlesRef'[i].maxLife)]_vars

\* C18 amended: it is the other way round. Every particle the effect's body
\* creates starts at life = random * maxLife, in [0, maxLife) (and has one
\* more after the body's first animate); every particle animate creates in
\* place of another starts at life 0.
C18_StaggeredAtConfigure ==
  [][Ticked =>
       /\ \A i \in 1..Len(particlesRef') :
            lastStep'[i].event # "moved" => particlesRef'[i].life = 0
       /\ effectRuns' # effectRuns =>
            \E seed \in Seeds :
              \A i \in 1..Len(particlesRef') :
                lastStep'[i].event = "moved" =>
                  /\ particlesRef'[i].life =
                       Draw(LifeDraws, seed, i) * (particlesRef'[i].maxLife \div 1000) + 1000
                  /\ particlesRef'[i].life - 1000 < particlesRef'[i].maxLife]_vars

\* the effect ran again after a change of direction and strength: a particle
\* it created is well into its life, one that animate created has life 0
C18_Witness ==
  /\ effectRuns = 2
  /\ \E i \in 1..Len(particlesRef) :
       lastStep[i].event = "moved" /\ particlesRef[i].life > 100000
  /\ \E i \in 1..Len(particlesRef) :
       lastStep[i].event = "expired" /\ particlesRef[i].life = 0
  /\ \E i \in 1..Len(particlesRef) :
       lastStep[i].event = "left water" /\ particlesRef[i].life = 0

\* the speeds createParticle can give for a strength: the base speed 2.5,
\* 1.5 or 0.7 times a factor in [0.5, 1.5) times the scale w / 800
SpawnSpeeds(strength) ==
  LET base == CASE strength = "strong" -> 2500
                [] strength = "medium" -> 1500
                [] strength = "weak" -> 700
  IN {(base * (500 + r) * (v.width \div 80)) \div 10000 :
        r \in {0} \cup {SpeedDraws[k] : k \in 1..Len(SpeedDraws)}, v \in Viewports}

\* C19: after the effect has initialised the population, and after every
\* frame, respawn and resize that follows, every particle's speed is one
\* drawn from the base speed of the strength of that initialisation; none
\* is left from an earlier strength.
C19_SpeedsOfLastConfigure ==
  IsSome(effect) =>
    \A i \in 1..Len(particlesRef) : particlesRef[i].speed \in SpawnSpeeds(effect[1].strength)

\* the effect ran again for the weak strength; after a resize and a frame
\* there are weak particles spawned at scale 1 and at scale 0.5
C19_Witness ==
  /\ effectRuns = 2
  /\ IsSome(effect)
  /\ effect[1].strength = "weak"
  /\ frameCount > 0
  /\ \E i \in 1..Len(particlesRef) : particlesRef[i].speed \in {700, 980}
  /\ \E i \in 1..Len(particlesRef) : particlesRef[i].speed \in {175, 490}

\* C20 as stated: createParticle takes at least one sample and gives up
\* only after the 30 to 40 samples the spec names: a particle it returns on
\* land is the last of 30 to 40 samples.
C20_GivesUpAfterThirty ==
  [][Ticked =>
       \A i \in 1..Len(particlesRef') :
         lastStep'[i].event # "moved" =>
           /\ lastStep'[i].attempts \in 1..40
           /\ ~isInWater(particlesRef'[i].x, particlesRef'[i].y, sizeRef') =>
                lastStep'[i].attempts \in 30..40]_vars

\* C20 amended: createParticle takes at least 1 and at most 20 samples; it
\* stops at the first sample that is in the water, and after the 20th it
\* returns that sample although it is on land. It always returns a particle.
C20_GivesUpAfterTwenty ==
  [][Ticked =>
       \A i \in 1..Len(particlesRef') :
         lastStep'[i].event # "moved" =>
           /\ lastStep'[i].attempts \in 1..20
           /\ lastStep'[i].attempts < 20 =>
                isInWater(particlesRef'[i].x, particlesRef'[i].y, sizeRef')
           /\ Respawned(particlesRef'[i], i, sizeRef', effect'[1].strength)]_vars

\* a frame created one particle at the first sample, one after several, and
\* one on land after 20 samples
C20_Witness ==
  /\ frameCount > 0
  /\ \E i \in 1..Len(particlesRef) :
       lastStep[i].event # "moved" /\ lastStep[i].attempts = 1
  /\ \E i \in 1..Len(particlesRef) :
       lastStep[i].event # "moved" /\ lastStep[i].attempts \in 2..19
  /\ \E i \in 1..Len(particlesRef) :
       /\ lastStep[i].event # "moved"
       /\ lastStep[i].attempts = 20
       /\ ~isInWater(particlesRef[i].x, particlesRef[i].y, sizeRef)

-----------------------------------------------------------------------------
\* the frames that are pending belong to the loop of the effect run that is
\* live: there is at most one, it is the one animFrameRef names, and its
\* callback is the animate of the latest run of the effect
PendingOfLiveLoop ==
  /\ Cardinality(frames) <= 1
  /\ \A f \in frames :
       /\ mounted
       /\ IsSome(effect)
       /\ f.id = animFrameRef
       /\ f.run = effectRuns
       /\ f.direction = effect[1].direction
       /\ f.strength = effect[1].strength

\* a frame runs: it is the one pending frame of the live loop, and the frame
\* it requests is the only one pending afterwards
TickOfLiveLoop ==
  frameCount' # frameCount =>
    /\ mounted
    /\ IsSome(effect)
    /\ \E f \in frames :
         /\ f.run = effectRuns
         /\ frames' = {[f EXCEPT !.id = nextFrameId]}

\* the effect's cleanup has run, before a new run of its body or at unmount:
\* no frame requested by the loop it stopped is pending afterwards
CleanupCancels ==
  /\ effectRuns' # effectRuns => \A f \in frames' : f.run = effectRuns'
  /\ (mounted /\ ~mounted') => frames' = {}

\* C21: at most one animation-frame callback is pending at any time; after the
\* cleanup of the effect, at unmount or before the effect runs again, no frame
\* of the loop it stopped is pending and none of its frames runs again: every
\* frame that runs is the pending frame of the loop of the live effect run, so
\* two loops never update the population.
C21_TickScheduling ==
  /\ []PendingOfLiveLoop
  /\ [][TickOfLiveLoop /\ CleanupCancels]_vars

\* the effect ran twice (its cleanup ran in between, with a frame pending), a
\* frame ran, and the component was removed: nothing is pending
C21_Witness ==
  /\ ~mounted
  /\ effectRuns = 2
  /\ frameCount = 1
  /\ animFrameRef = 3
  /\ frames = {}

-----------------------------------------------------------------------------
\* what the page shows once the response for a date has been processed and
\* the estimate was last computed for an hour
DerivedFrom(date, hour) ==
  LET evs == parseTideEvents(Response(date))
  IN /\ shown.date = date
     /\ tideEvents = evs
     /\ currentFlow = Some(estimateCurrentFlow(evs, hour).flow)

\* C22: whenever loading is false and error is null, the tide events and the
\* flow estimate on the page were derived from the response for the selected
\* date; and loading is false only when no fetch for the selected date is in
\* flight. This is to hold for every interleaving of date changes and fetch
\* completions, whatever the order in which the responses arrive.
C22_DisplayedMatchesSelected ==
  /\ (~loading /\ ~error) => DerivedFrom(selectedDate, shown.hour)
  /\ ~loading => ~(\E f \in fetches : f.date = selectedDate)

=============================================================================
